---- MODULE Spec2Model ----
(***************************************************************************)
(* A model of lagom's run_experiment (src/lagom/experiment/                *)
(* run_experiment.py): preparation of the logging directory tree, the      *)
(* enumeration of the jobs, the per-job wrapper _run with its device       *)
(* resolution, and the serial and pooled (ProcessPoolExecutor.map)         *)
(* dispatch of the jobs.                                                   *)
(***************************************************************************)
EXTENDS Integers, Sequences, FiniteSets, TLC

\* ------------------------------------------------------------------ bounds
MaxConfigs == 2
MaxSeeds == 2
MaxWorkers == 2
MaxChunk == 2
MaxGpu == 2
MaxCalls == 2
MaxDirCalls == 3
MaxDim == 2
ActionBound == 1
MaxPrints == 2

\* ----------------------------------------------------------------- helpers
\* Python's None / an optional value: the empty tuple, or a 1-tuple.
None == <<>>
Some(v) == <<v>>
Get(o) == o[1]

Min(a, b) == IF a <= b THEN a ELSE b

\* f'{ID}', f'{seed}': the decimal text of a small non-negative integer.
Digits == <<"0", "1", "2", "3", "4", "5", "6", "7", "8", "9">>
Str(n) == IF n < 10 THEN Digits[n + 1] ELSE Digits[(n \div 10) + 1] \o Digits[(n % 10) + 1]

\* Paths are sequences of components; log_dir is the one component "logs".
log_path == <<"logs">>
\* log_path.with_name('old_' + log_path.name)
old_log_path == SubSeq(log_path, 1, Len(log_path) - 1) \o <<"old_" \o log_path[Len(log_path)]>>

IsPrefix(p, q) == Len(p) <= Len(q) /\ SubSeq(q, 1, Len(p)) = p
Prefixes(p) == {SubSeq(p, 1, k) : k \in 1..Len(p)}
Parent(p) == SubSeq(p, 1, Len(p) - 1)

\* The leaf directory log_path / f'{ID}' / f'{seed}'.
LeafDir(config, seed) == log_path \o <<Str(config.ID), Str(seed)>>
ConfigFile(config) == log_path \o <<Str(config.ID), "config.yml">>
source_path == log_path \o <<"source_files">>

\* Exceptions: <<type, config ID, seed>> (-1 where no job is concerned).
Exc(type) == <<type, -1, -1>>
NoExc == Exc("none")

\* The caller's run function: deterministic in (config, seed).
RunResult(config, seed) == <<"result", config.ID, seed>>
RunError(config, seed) == <<"RunError", config.ID, seed>>

VARIABLES
    configs,      \* config.make_configs(): the expanded configurations
    seeds,        \* the list of seeds
    max_workers,  \* None, or Some(k)
    chunksize,    \* chunksize of Executor.map
    use_gpu,      \* use CUDA
    gpu_ids,      \* None, or Some(list of device ids)
    num_gpu,      \* torch.cuda.device_count()
    fail_seed,    \* the run function raises on this seed (0: on none)
    fs,           \* the filesystem: the set of existing paths
    pc,           \* position of the calling process in run_experiment
    ci, si,       \* loop positions of the directory creation
    jobs,         \* list(enumerate(product(configs, seeds)))
    results,      \* the results materialised so far
    di,           \* number of chunk futures drained so far
    raising,      \* the exception travelling out of the with block
    outcome,      \* what run_experiment gave its caller
    pool_size,    \* number of worker processes of the executor
    futures,      \* one future per chunk submitted by Executor.map
    worker,       \* per process (0: the calling process) the job at hand
    calls,        \* per job_id, the invocations of the run function
    overtaken,    \* history: a chunk was through before an earlier one
    call_no,      \* number of the present call of run_experiment
    history,      \* the mode and the outcome of each earlier call
    fs0,          \* history: the filesystem when run_experiment was called
    answer,       \* the operator's answer in this call ("none": no prompt)
    proc,         \* per process: thread count, unfreed device memory, inventory queried
    releases,     \* history: calls of torch.cuda.empty_cache in this call
    agent         \* the VPG example's Agent: control type, position in choose_action, out

inputs == <<configs, seeds, max_workers, chunksize, use_gpu, gpu_ids, num_gpu, fail_seed, call_no, history, fs0, agent>>
mainv == <<pc, ci, si, jobs, results, di, raising, outcome>>
poolv == <<pool_size, futures, worker, calls, overtaken>>
procv == <<proc, releases>>
vars == <<inputs, fs, mainv, poolv, answer, procv>>

Procs == 0..MaxWorkers
Idle == [chunk |-> 0, pos |-> 0, busy |-> FALSE, acc |-> <<>>, device |-> "none"]
\* A process before its first job: the thread count is the library's
\* default (0: not pinned), no device memory is held.
Fresh == [threads |-> 0, cache |-> FALSE, queried |-> FALSE]
\* An Agent of the given control type on which choose_action is not yet
\* called.
NewAgent(control_type) ==
    [control_type |-> control_type, pc |-> "idle", out |-> None, result |-> None, printed |-> 0]

\* ------------------------------------------------------------------ inputs
ConfigLists == {[i \in 1..n |-> [ID |-> i - 1]] : n \in 0..MaxConfigs}
\* Seeds in an order that is not the sorted one, and lists that repeat a seed.
SeedLists ==
    {[i \in 1..m |-> m + 1 - i] : m \in 0..MaxSeeds} \cup {[i \in 1..m |-> 1] : m \in 2..MaxSeeds}
WorkerChoices == {None} \cup {Some(k) : k \in 1..MaxWorkers}
\* gpu_ids: unset, a valid rotation, and lists with an index out of range.
GpuIdChoices == {None, Some(<<1, 0>>), Some(<<0, MaxGpu>>), Some(<<-1>>)}
DeviceSetups == {s \in BOOLEAN \X GpuIdChoices : s[1] \/ s[2] \in {None, Some(<<-1>>)}}

\* A previous experiment's tree under log_path.
StaleTree == {log_path, log_path \o <<"0">>, log_path \o <<"0", "7">>}

Init ==
    /\ configs \in ConfigLists
    /\ seeds \in SeedLists
    /\ max_workers \in WorkerChoices
    /\ chunksize \in 1..MaxChunk
    /\ \E s \in DeviceSetups : use_gpu = s[1] /\ gpu_ids = s[2]
    /\ num_gpu = MaxGpu
    /\ fail_seed \in 0..MaxSeeds
    /\ fs \in {{}, StaleTree}
    /\ pc = "start"
    /\ ci = 1
    /\ si = 1
    /\ jobs = <<>>
    /\ results = <<>>
    /\ di = 0
    /\ raising = NoExc
    /\ outcome = [kind |-> "running", results |-> <<>>, exc |-> NoExc]
    /\ pool_size = 0
    /\ futures = <<>>
    /\ worker = [p \in Procs |-> Idle]
    /\ calls = <<>>
    /\ overtaken = FALSE
    /\ call_no = 1
    /\ history = <<>>
    /\ fs0 = fs
    /\ answer = "none"
    /\ proc = [p \in Procs |-> Fresh]
    /\ releases = 0
    /\ agent = NewAgent("Discrete")

\* An exception leaves run_experiment: nothing is returned.
Raise(e) ==
    /\ pc' = "done"
    /\ outcome' = [kind |-> "raised", results |-> <<>>, exc |-> e]

\* Mutant: the tree's siblings are removed with it.
RmtreeGreedy(tree, p) == {q \in tree : ~IsPrefix(Parent(p), q)}
\* Mutant: nothing is removed.
RmtreeKeep(tree, p) == tree
\* Mutant: mkdir with exist_ok=True.
MkdirExistOk(p) == TRUE
\* ------------------------------------------------- the logging directory
\* Path.mkdir(parents=True) without exist_ok.
MkdirOk(p) == p \notin fs
Mkdir(tree, p) == tree \cup Prefixes(p)
\* shutil.rmtree
Rmtree(tree, p) == {q \in tree : ~IsPrefix(p, q)}
\* Path.rename of a directory: the target must be absent or an empty directory.
RenameOk(tree, q) == \A r \in tree : IsPrefix(q, r) => r = q
Rename(tree, p, q) ==
    {r \in tree : ~IsPrefix(p, r)} \cup {q \o SubSeq(r, Len(p) + 1, Len(r)) : r \in {x \in tree : IsPrefix(p, x)}}

\* Lines 69-83: create the logging directory; a pre-existing one is cleaned
\* (answer yes) or backed up under old_<name> (answer no).
ResolveRoot ==
    /\ pc = "start"
    /\ IF log_path \notin fs
       THEN /\ fs' = Mkdir(fs, log_path)
            /\ pc' = "source"
            /\ UNCHANGED <<outcome, answer>>
       ELSE \E yes \in BOOLEAN :
              IF yes
              THEN /\ fs' = Mkdir(Rmtree(fs, log_path), log_path)
                   /\ pc' = "source"
                   /\ answer' = "yes"
                   /\ UNCHANGED outcome
              ELSE /\ answer' = "no"
                   /\ IF RenameOk(fs, old_log_path)
                      THEN /\ fs' = Mkdir(Rename(fs, log_path, old_log_path), log_path)
                           /\ pc' = "source"
                           /\ UNCHANGED outcome
                      ELSE /\ Raise(Exc("OSError"))
                           /\ UNCHANGED fs
    /\ UNCHANGED <<inputs, ci, si, jobs, results, di, raising, poolv, procv>>

\* Lines 86-88: the snapshot of the run function's source modules.
SaveSource ==
    /\ pc = "source"
    /\ fs' = Mkdir(fs, source_path) \cup {source_path \o <<"run.py">>}
    /\ pc' = "mkdirs"
    /\ UNCHANGED <<inputs, ci, si, jobs, results, di, raising, outcome, poolv, answer, procv>>

\* Mutant: the loop is left after the first configuration.
DirsDoneEarly == ci > Min(1, Len(configs))

\* Lines 91-96: the loop over the configurations is through.
DirsDone == ci > Len(configs)

\* Lines 93-95: one iteration of the inner loop.
MkLeaf ==
    /\ pc = "mkdirs"
    /\ ~DirsDone
    /\ si <= Len(seeds)
    /\ LET p == LeafDir(configs[ci], seeds[si]) IN
       IF MkdirOk(p)
       THEN /\ fs' = Mkdir(fs, p)
            /\ si' = si + 1
            /\ UNCHANGED <<pc, outcome>>
       ELSE /\ Raise(Exc("FileExistsError"))
            /\ UNCHANGED <<fs, si>>
    /\ UNCHANGED <<inputs, ci, jobs, results, di, raising, poolv, answer, procv>>

\* Line 96: yaml_dump opens log_path/<ID>/config.yml for writing.
DumpConfig ==
    /\ pc = "mkdirs"
    /\ ~DirsDone
    /\ si > Len(seeds)
    /\ LET f == ConfigFile(configs[ci]) IN
       IF Parent(f) \in fs
       THEN /\ fs' = fs \cup {f}
            /\ ci' = ci + 1
            /\ si' = 1
            /\ UNCHANGED <<pc, outcome>>
       ELSE /\ Raise(Exc("FileNotFoundError"))
            /\ UNCHANGED <<fs, ci, si>>
    /\ UNCHANGED <<inputs, jobs, results, di, raising, poolv, answer, procv>>

\* Line 98: pickle_dump of the configuration list.
PickleConfigs ==
    /\ pc = "mkdirs"
    /\ DirsDone
    /\ fs' = fs \cup {log_path \o <<"configs.pkl">>}
    /\ pc' = "enumerate"
    /\ UNCHANGED <<inputs, ci, si, jobs, results, di, raising, outcome, poolv, answer, procv>>

\* ------------------------------------------------------- job enumeration
\* Mutant: the product taken seed-major.
RECURSIVE ProductSeedMajor(_, _)
ProductSeedMajor(cs, ss) ==
    IF ss = <<>> THEN <<>>
    ELSE [i \in 1..Len(cs) |-> <<cs[i], Head(ss)>>] \o ProductSeedMajor(cs, Tail(ss))

\* itertools.product(configs, seeds): for each configuration, each seed.
RECURSIVE Product(_, _)
Product(cs, ss) ==
    IF cs = <<>> THEN <<>>
    ELSE [j \in 1..Len(ss) |-> <<Head(cs), ss[j]>>] \o Product(Tail(cs), ss)

\* enumerate(...): pairs <<index from 0, item>>.
Enumerate(items) == [k \in 1..Len(items) |-> <<k - 1, items[k]>>]

\* Line 101.
MakeJobs(cs, ss) == Enumerate(Product(cs, ss))

EnumerateJobs ==
    /\ pc = "enumerate"
    /\ jobs' = MakeJobs(configs, seeds)
    /\ calls' = [k \in 1..Len(MakeJobs(configs, seeds)) |-> <<>>]
    /\ pc' = "dispatch"
    /\ UNCHANGED <<inputs, fs, ci, si, results, di, raising, outcome, pool_size, futures, worker, overtaken, answer, procv>>

\* ------------------------------------------------------------ _run(job)
\* Lines 110-120: the device of a job, or the exception raised on the way.
Resolved(d) == [ok |-> TRUE, device |-> d, exc |-> NoExc]
Failed(e) == [ok |-> FALSE, device |-> "none", exc |-> e]

\* Mutant: only the lower bound of the indices is checked.
ValidGpuIdsLower(ids) == \A i \in 1..Len(ids) : ids[i] >= 0

ValidGpuIds(ids) == \A i \in 1..Len(ids) : ids[i] >= 0 /\ ids[i] < num_gpu

\* Mutant: the rotation starts one place late.
DeviceForShifted(job_id) ==
    IF use_gpu
    THEN IF gpu_ids = None
         THEN IF num_gpu = 0
              THEN Failed(Exc("ZeroDivisionError"))
              ELSE Resolved("cuda:" \o Str((job_id + 1) % num_gpu))
         ELSE IF ~ValidGpuIds(Get(gpu_ids))
              THEN Failed(Exc("AssertionError"))
              ELSE IF Len(Get(gpu_ids)) = 0
                   THEN Failed(Exc("ZeroDivisionError"))
                   ELSE Resolved("cuda:" \o Str(Get(gpu_ids)[((job_id + 1) % Len(Get(gpu_ids))) + 1]))
    ELSE Resolved("cpu")

\* Mutant: the device is taken from the inventory whatever the mode.
DeviceForAnyMode(job_id) ==
    IF gpu_ids = None
    THEN IF num_gpu = 0
         THEN Failed(Exc("ZeroDivisionError"))
         ELSE Resolved("cuda:" \o Str(job_id % num_gpu))
    ELSE IF ~ValidGpuIds(Get(gpu_ids))
         THEN Failed(Exc("AssertionError"))
         ELSE IF Len(Get(gpu_ids)) = 0
              THEN Failed(Exc("ZeroDivisionError"))
              ELSE Resolved("cuda:" \o Str(Get(gpu_ids)[(job_id % Len(Get(gpu_ids))) + 1]))

DeviceFor(job_id) ==
    IF use_gpu
    THEN IF gpu_ids = None
         THEN IF num_gpu = 0
              THEN Failed(Exc("ZeroDivisionError"))
              ELSE Resolved("cuda:" \o Str(job_id % num_gpu))
         ELSE IF ~ValidGpuIds(Get(gpu_ids))
              THEN Failed(Exc("AssertionError"))
              ELSE IF Len(Get(gpu_ids)) = 0
                   THEN Failed(Exc("ZeroDivisionError"))
                   ELSE Resolved("cuda:" \o Str(Get(gpu_ids)[(job_id % Len(Get(gpu_ids))) + 1]))
    ELSE Resolved("cpu")

\* Lines 127-128: the arguments the run function is invoked with.
Invocation(job, device) ==
    [config |-> job[2][1], seed |-> job[2][2], device |-> device,
     logdir |-> log_path \o <<Str(job[2][1].ID), Str(job[2][2])>>]

\* The caller's run function raises on the seed fail_seed.
Raises(job) == job[2][2] = fail_seed

\* ------------------------------------------------------- serial dispatch
\* Lines 134-138: the choice of the mode; the pool and the chunk futures.
NumChunks(n, cs) == (n + cs - 1) \div cs
\* Mutant: a chunk reaches one job into the next chunk.
ChunkJobsOverlap(c) == SubSeq(jobs, (c - 1) * chunksize + 1, Min(c * chunksize + 1, Len(jobs)))
ChunkJobs(c) == SubSeq(jobs, (c - 1) * chunksize + 1, Min(c * chunksize, Len(jobs)))
\* Mutant: the pool is not bounded by the number of jobs.
PoolWorkersUnbounded == Get(max_workers)
PoolWorkers == Min(Get(max_workers), Len(jobs))
Pending == [state |-> "pending", value |-> <<>>, exc |-> NoExc]

Dispatch ==
    /\ pc = "dispatch"
    /\ IF max_workers = None
       THEN /\ pc' = "serial"
            /\ UNCHANGED <<outcome, pool_size, futures>>
       ELSE IF PoolWorkers <= 0
            THEN /\ Raise(Exc("ValueError"))
                 /\ UNCHANGED <<pool_size, futures>>
            ELSE /\ pool_size' = PoolWorkers
                 /\ futures' = [c \in 1..NumChunks(Len(jobs), chunksize) |-> Pending]
                 /\ pc' = "drain"
                 /\ UNCHANGED outcome
    /\ UNCHANGED <<inputs, fs, ci, si, jobs, results, di, raising, worker, calls, overtaken, answer, procv>>

\* ------------------------------------------- process-wide state in _run
\* Mutant: the thread count is pinned in the calling process only.
SetNumThreadsMain(P, p) == [P EXCEPT ![0].threads = 1]
\* Mutant: the device memory is never released.
CleanupNever(P, p, n) == <<P, n>>
\* Mutant: the device memory is released whatever the mode.
CleanupAlways(P, p, n) == <<[P EXCEPT ![p].cache = FALSE], n + 1>>

\* Line 109: torch.set_num_threads(1) in the process running _run.
SetNumThreads(P, p) == [P EXCEPT ![p].threads = 1]
\* Lines 110-111: torch.cuda.device_count() is called in accelerator mode
\* only.
QueryInventory(P, p) == [P EXCEPT ![p].queried = @ \/ use_gpu]
\* Line 128: while it runs on an accelerator, the run function leaves
\* device memory in the process's caching allocator.
Allocate(P, p) == [P EXCEPT ![p].cache = @ \/ use_gpu]
\* Lines 130-131: torch.cuda.empty_cache() in accelerator mode; the
\* second component counts the calls.
Cleanup(P, p, n) ==
    IF use_gpu THEN <<[P EXCEPT ![p].cache = FALSE], n + 1>> ELSE <<P, n>>
\* _run from its first line to the call of the run function when the
\* device is resolved, and to the failing line when it is not.
Enter(P, p, resolved) ==
    IF resolved THEN Allocate(QueryInventory(SetNumThreads(P, p), p), p)
    ELSE QueryInventory(SetNumThreads(P, p), p)

\* Line 135, _run up to the call of the run function (lines 104-128).
SerialBegin ==
    /\ pc = "serial"
    /\ ~worker[0].busy
    /\ Len(results) < Len(jobs)
    /\ LET k == Len(results) + 1
           r == DeviceFor(jobs[k][1])
       IN IF r.ok
          THEN /\ worker' = [worker EXCEPT ![0] = [chunk |-> 0, pos |-> k, busy |-> TRUE,
                                                   acc |-> <<>>, device |-> r.device]]
               /\ calls' = [calls EXCEPT ![k] = Append(@, Invocation(jobs[k], r.device))]
               /\ UNCHANGED <<pc, outcome>>
          ELSE /\ Raise(r.exc)
               /\ UNCHANGED <<worker, calls>>
    /\ proc' = Enter(proc, 0, DeviceFor(jobs[Len(results) + 1][1]).ok)
    /\ UNCHANGED <<inputs, fs, ci, si, jobs, results, di, raising, pool_size, futures, overtaken, answer, releases>>

\* Mutant: the exception of a job is swallowed and the loop goes on.
SerialEndSwallow ==
    /\ pc = "serial"
    /\ worker[0].busy
    /\ LET job == jobs[worker[0].pos]
       IN results' = Append(results, IF Raises(job) THEN RunError(job[2][1], job[2][2])
                                     ELSE RunResult(job[2][1], job[2][2]))
    /\ worker' = [worker EXCEPT ![0] = Idle]
    /\ UNCHANGED <<inputs, fs, pc, outcome, ci, si, jobs, di, raising, pool_size, futures, calls, overtaken, answer, procv>>

\* Line 135, the run function returns or raises (lines 128-132).
SerialEnd ==
    /\ pc = "serial"
    /\ worker[0].busy
    /\ LET job == jobs[worker[0].pos]
       IN IF Raises(job)
          THEN /\ Raise(RunError(job[2][1], job[2][2]))
               /\ UNCHANGED <<results, procv>>
          ELSE /\ results' = Append(results, RunResult(job[2][1], job[2][2]))
               /\ proc' = Cleanup(proc, 0, releases)[1]
               /\ releases' = Cleanup(proc, 0, releases)[2]
               /\ UNCHANGED <<pc, outcome>>
    /\ worker' = [worker EXCEPT ![0] = Idle]
    /\ UNCHANGED <<inputs, fs, ci, si, jobs, di, raising, pool_size, futures, calls, overtaken, answer>>

\* Lines 139-140 after the list comprehension.
SerialReturn ==
    /\ pc = "serial"
    /\ ~worker[0].busy
    /\ Len(results) = Len(jobs)
    /\ pc' = "done"
    /\ outcome' = [kind |-> "returned", results |-> results, exc |-> NoExc]
    /\ UNCHANGED <<inputs, fs, ci, si, jobs, results, di, raising, poolv, answer, procv>>

\* ------------------------------------------------------- pooled dispatch
\* Mutant: the chunk submitted last is never handed to a worker.
PendingChunksButLast == {c \in 1..(Len(futures) - 1) : futures[c].state = "pending"}
\* Some chunk submitted before chunk c has its future not yet set.
Unset(c) == \E d \in 1..(c - 1) : futures[d].state \in {"pending", "running"}

PendingChunks == {c \in 1..Len(futures) : futures[c].state = "pending"}
FirstPending == CHOOSE c \in PendingChunks : \A d \in PendingChunks : c <= d

\* Mutant: a job waits while its device is in use by another worker.
WorkerBeginReserved(w) ==
    /\ pc \in {"drain", "shutdown"}
    /\ w \in 1..pool_size
    /\ ~worker[w].busy
    /\ worker[w].chunk # 0 \/ PendingChunks # {}
    /\ proc[w] = Fresh => \A v \in 1..(w - 1) : proc[v] # Fresh
    /\ LET c == IF worker[w].chunk # 0 THEN worker[w].chunk ELSE FirstPending
           pos == IF worker[w].chunk # 0 THEN worker[w].pos ELSE 1
           job == ChunkJobs(c)[pos]
           r == DeviceFor(job[1])
       IN /\ r.ok => \A v \in 1..pool_size : worker[v].busy => worker[v].device # r.device
          /\ IF r.ok
             THEN /\ worker' = [worker EXCEPT ![w] = [chunk |-> c, pos |-> pos, busy |-> TRUE,
                                                      acc |-> worker[w].acc, device |-> r.device]]
                  /\ futures' = [futures EXCEPT ![c].state = "running"]
                  /\ calls' = [calls EXCEPT ![job[1] + 1] = Append(@, Invocation(job, r.device))]
             ELSE /\ worker' = [worker EXCEPT ![w] = Idle]
                  /\ futures' = [futures EXCEPT ![c] = [state |-> "failed", value |-> <<>>, exc |-> r.exc]]
                  /\ UNCHANGED calls
    /\ overtaken' = (overtaken \/ (~DeviceFor(0).ok /\ Unset(IF worker[w].chunk # 0 THEN worker[w].chunk ELSE FirstPending)))
    /\ proc' = Enter(proc, w, DeviceFor(0).ok)
    /\ UNCHANGED <<inputs, fs, mainv, pool_size, answer, releases>>

\* A worker process takes the next chunk from the call queue if it has none
\* and runs _run on its next job up to the call of the run function. The
\* pool's processes are alike: they are numbered in the order in which
\* they take their first chunk.
WorkerBegin(w) ==
    /\ pc \in {"drain", "shutdown"}
    /\ w \in 1..pool_size
    /\ ~worker[w].busy
    /\ worker[w].chunk # 0 \/ PendingChunks # {}
    /\ proc[w] = Fresh => \A v \in 1..(w - 1) : proc[v] # Fresh
    /\ LET c == IF worker[w].chunk # 0 THEN worker[w].chunk ELSE FirstPending
           pos == IF worker[w].chunk # 0 THEN worker[w].pos ELSE 1
           job == ChunkJobs(c)[pos]
           r == DeviceFor(job[1])
       IN IF r.ok
          THEN /\ worker' = [worker EXCEPT ![w] = [chunk |-> c, pos |-> pos, busy |-> TRUE,
                                                   acc |-> worker[w].acc, device |-> r.device]]
               /\ futures' = [futures EXCEPT ![c].state = "running"]
               /\ calls' = [calls EXCEPT ![job[1] + 1] = Append(@, Invocation(job, r.device))]
          ELSE /\ worker' = [worker EXCEPT ![w] = Idle]
               /\ futures' = [futures EXCEPT ![c] = [state |-> "failed", value |-> <<>>, exc |-> r.exc]]
               /\ UNCHANGED calls
    /\ overtaken' = (overtaken \/ (~DeviceFor(0).ok /\ Unset(IF worker[w].chunk # 0 THEN worker[w].chunk ELSE FirstPending)))
    /\ proc' = Enter(proc, w, DeviceFor(0).ok)
    /\ UNCHANGED <<inputs, fs, mainv, pool_size, answer, releases>>

\* The run function returns or raises in a worker; the chunk's future is set
\* once the chunk is through or a job of it has raised.
WorkerEnd(w) ==
    /\ w \in 1..pool_size
    /\ worker[w].busy
    /\ LET c == worker[w].chunk
           job == ChunkJobs(c)[worker[w].pos]
           acc == Append(worker[w].acc, RunResult(job[2][1], job[2][2]))
       IN IF Raises(job)
          THEN /\ futures' = [futures EXCEPT ![c] = [state |-> "failed", value |-> <<>>,
                                                     exc |-> RunError(job[2][1], job[2][2])]]
               /\ worker' = [worker EXCEPT ![w] = Idle]
               /\ UNCHANGED procv
          ELSE /\ proc' = Cleanup(proc, w, releases)[1]
               /\ releases' = Cleanup(proc, w, releases)[2]
               /\ IF worker[w].pos = Len(ChunkJobs(c))
                  THEN /\ futures' = [futures EXCEPT ![c] = [state |-> "done", value |-> acc, exc |-> NoExc]]
                       /\ worker' = [worker EXCEPT ![w] = Idle]
                  ELSE /\ worker' = [worker EXCEPT ![w] = [@ EXCEPT !.pos = @ + 1, !.busy = FALSE, !.acc = acc]]
                       /\ UNCHANGED futures
    /\ overtaken' = (overtaken \/ (futures'[worker[w].chunk].state # "running" /\ Unset(worker[w].chunk)))
    /\ UNCHANGED <<inputs, fs, mainv, pool_size, calls, answer>>

\* Futures cancelled when the result iterator is closed: the pending ones,
\* but for those the executor has already moved to its call queue (at most
\* pool_size + 1 of them, the first in submission order).
CancelPending(keep) ==
    [c \in 1..Len(futures) |->
        IF futures[c].state = "pending" /\ Cardinality({d \in PendingChunks : d <= c}) > keep
        THEN [state |-> "cancelled", value |-> <<>>, exc |-> NoExc]
        ELSE futures[c]]

\* Mutant: the results are taken as the futures complete.
DrainTargetCompleted ==
    IF \E c \in (di + 2)..Len(futures) : futures[c].state \in {"done", "failed"}
    THEN CHOOSE c \in (di + 2)..Len(futures) : futures[c].state \in {"done", "failed"}
    ELSE di + 1
\* Mutant: a chunk's results are put in front of the earlier ones.
GatherFront(sofar, value) == value \o sofar

\* Executor.map yields the futures' results in the order of submission.
DrainTarget == di + 1
\* list(...) of the chained chunk results.
Gather(sofar, value) == sofar \o value

\* Line 138: list(executor.map(...)) takes the next chunk's result, in
\* submission order, once its future is set.
DrainNext ==
    /\ pc = "drain"
    /\ di < Len(futures)
    /\ futures[DrainTarget].state \in {"done", "failed"}
    /\ IF futures[DrainTarget].state = "done"
       THEN /\ results' = Gather(results, futures[DrainTarget].value)
            /\ di' = di + 1
            /\ UNCHANGED <<pc, raising, futures>>
       ELSE /\ raising' = futures[DrainTarget].exc
            /\ pc' = "shutdown"
            /\ \E keep \in 0..Min(Cardinality(PendingChunks), pool_size + 1) :
                   futures' = CancelPending(keep)
            /\ UNCHANGED <<results, di>>
    /\ UNCHANGED <<inputs, fs, ci, si, jobs, outcome, pool_size, worker, calls, overtaken, answer, procv>>

\* Lines 137-140: leaving the with block waits for the workers
\* (shutdown(wait=True)); then the results are returned, or the exception
\* of the drained future goes on to the caller.
ExitWith ==
    /\ pc \in {"drain", "shutdown"}
    /\ pc = "drain" => di = Len(futures)
    /\ \A w \in 1..pool_size : worker[w] = Idle
    /\ PendingChunks = {}
    /\ IF raising = NoExc
       THEN /\ pc' = "done"
            /\ outcome' = [kind |-> "returned", results |-> results, exc |-> NoExc]
       ELSE Raise(raising)
    /\ UNCHANGED <<inputs, fs, ci, si, jobs, results, di, raising, poolv, answer, procv>>

\* ------------------------------------------------------ successive calls
\* Line 19: the caller calls run_experiment again, on the same log_dir and
\* with the same configurations, seeds and run function, in a mode of its
\* choice.
Recall(limit, modes) ==
    /\ pc = "done"
    /\ call_no < limit
    /\ call_no' = call_no + 1
    /\ history' = Append(history, [max_workers |-> max_workers, outcome |-> outcome])
    /\ max_workers' \in modes
    /\ pc' = "start"
    /\ ci' = 1
    /\ si' = 1
    /\ jobs' = <<>>
    /\ results' = <<>>
    /\ di' = 0
    /\ raising' = NoExc
    /\ outcome' = [kind |-> "running", results |-> <<>>, exc |-> NoExc]
    /\ pool_size' = 0
    /\ futures' = <<>>
    /\ worker' = [p \in Procs |-> Idle]
    /\ calls' = <<>>
    /\ overtaken' = FALSE
    /\ fs0' = fs
    /\ answer' = "none"
    /\ proc' = [p \in Procs |-> IF p = 0 THEN proc[0] ELSE Fresh]
    /\ releases' = 0
    /\ UNCHANGED <<configs, seeds, chunksize, use_gpu, gpu_ids, num_gpu, fail_seed, fs, agent>>

NextCall == Recall(MaxCalls, WorkerChoices)

\* ----------------------------------------------------------- specification
Next ==
    \/ ResolveRoot
    \/ SaveSource
    \/ MkLeaf
    \/ DumpConfig
    \/ PickleConfigs
    \/ EnumerateJobs
    \/ Dispatch
    \/ SerialBegin
    \/ SerialEnd
    \/ SerialReturn
    \/ \E w \in 1..MaxWorkers : WorkerBegin(w)
    \/ \E w \in 1..MaxWorkers : WorkerEnd(w)
    \/ DrainNext
    \/ ExitWith

Spec == Init /\ [][Next]_vars

\* One call with at least one seed.
InitSeeded ==
    /\ Init
    /\ seeds # <<>>

SpecSeeded == InitSeeded /\ [][Next]_vars

\* One call on a fresh log_dir, over all the devices of the machine or on
\* the host processor.
InitProcess ==
    /\ Init
    /\ fs = {}
    /\ gpu_ids = None

SpecProcess == InitProcess /\ [][Next]_vars

\* One call whose run function never raises, over all the devices of the
\* machine or on the host processor, the processes being scheduled fairly: the calling process goes on while it has a step to
\* take, and so does each worker of the pool.
InitLive ==
    /\ InitSeeded
    /\ fail_seed = 0
    /\ gpu_ids = None

MainStep ==
    \/ ResolveRoot
    \/ SaveSource
    \/ MkLeaf
    \/ DumpConfig
    \/ PickleConfigs
    \/ EnumerateJobs
    \/ Dispatch
    \/ SerialBegin
    \/ SerialEnd
    \/ SerialReturn
    \/ DrainNext
    \/ ExitWith

Fairness ==
    /\ WF_vars(MainStep)
    /\ \A w \in 1..MaxWorkers : WF_vars(WorkerBegin(w) \/ WorkerEnd(w))

SpecLive == InitLive /\ [][Next]_vars /\ Fairness

\* Successive calls on one log_dir, on the host processor, from an empty
\* filesystem.
InitRepeat ==
    /\ Init
    /\ use_gpu = FALSE
    /\ gpu_ids = None
    /\ fs = {}

NextRepeat ==
    \/ Next
    \/ NextCall

SpecRepeat == InitRepeat /\ [][NextRepeat]_vars

\* Serial calls, in accelerator mode and on the host processor, over a
\* wider range of device inventories and of gpu_ids lists.
DeviceIds == -1..(MaxGpu + 2)
DeviceIdLists == {<<>>} \cup {<<a>> : a \in DeviceIds} \cup {<<a, b>> : a, b \in DeviceIds}

InitDevice ==
    /\ configs \in ConfigLists
    /\ seeds \in {[i \in 1..m |-> m + 1 - i] : m \in 1..(MaxSeeds + 1)}
    /\ max_workers = None
    /\ chunksize = 1
    /\ use_gpu \in BOOLEAN
    /\ gpu_ids \in {None} \cup {Some(l) : l \in DeviceIdLists}
    /\ num_gpu \in 0..(MaxGpu + 2)
    /\ fail_seed = 0
    /\ fs = {}
    /\ pc = "start"
    /\ ci = 1
    /\ si = 1
    /\ jobs = <<>>
    /\ results = <<>>
    /\ di = 0
    /\ raising = NoExc
    /\ outcome = [kind |-> "running", results |-> <<>>, exc |-> NoExc]
    /\ pool_size = 0
    /\ futures = <<>>
    /\ worker = [p \in Procs |-> Idle]
    /\ calls = <<>>
    /\ overtaken = FALSE
    /\ call_no = 1
    /\ history = <<>>
    /\ fs0 = fs
    /\ answer = "none"
    /\ proc = [p \in Procs |-> Fresh]
    /\ releases = 0
    /\ agent = NewAgent("Discrete")

NextDevice ==
    \/ ResolveRoot
    \/ SaveSource
    \/ MkLeaf
    \/ DumpConfig
    \/ PickleConfigs
    \/ EnumerateJobs
    \/ Dispatch
    \/ SerialBegin
    \/ SerialEnd
    \/ SerialReturn

SpecDevice == InitDevice /\ [][NextDevice]_vars

\* Successive serial calls on one log_dir, the operator answering as it
\* likes, over configuration lists that may repeat an ID.
AnyConfigLists ==
    UNION {{[i \in 1..n |-> [ID |-> f[i]]] : f \in [1..n -> 0..(MaxConfigs - 1)]} : n \in 0..MaxConfigs}

InitDirs ==
    /\ configs \in AnyConfigLists
    /\ seeds \in SeedLists
    /\ max_workers = None
    /\ chunksize = 1
    /\ use_gpu = FALSE
    /\ gpu_ids = None
    /\ num_gpu = MaxGpu
    /\ fail_seed = 0
    /\ fs \in {{}, StaleTree}
    /\ pc = "start"
    /\ ci = 1
    /\ si = 1
    /\ jobs = <<>>
    /\ results = <<>>
    /\ di = 0
    /\ raising = NoExc
    /\ outcome = [kind |-> "running", results |-> <<>>, exc |-> NoExc]
    /\ pool_size = 0
    /\ futures = <<>>
    /\ worker = [p \in Procs |-> Idle]
    /\ calls = <<>>
    /\ overtaken = FALSE
    /\ call_no = 1
    /\ history = <<>>
    /\ fs0 = fs
    /\ answer = "none"
    /\ proc = [p \in Procs |-> Fresh]
    /\ releases = 0
    /\ agent = NewAgent("Discrete")

NextSerialCall == Recall(MaxDirCalls, {None})

NextDirs ==
    \/ NextDevice
    \/ NextSerialCall

SpecDirs == InitDirs /\ [][NextDirs]_vars

\* ------------------------------------------------- Agent.choose_action
\* A float of an action tensor: nan, or the number v.
NaN == <<>>
Num(v) == <<v>>
\* torch.isnan, of one element.
IsNan(x) == x = NaN
Scalars == {NaN} \cup {Num(v) : v \in (0 - ActionBound - 1)..(ActionBound + 1)}
\* The action tensors action_dist.sample() may yield.
ActionTensors == UNION {[1..n -> Scalars] : n \in 1..MaxDim}

\* Mutant: only the first element of the action is looked at.
HasNaNFirst(action) == IsNan(action[1])
\* Mutant: the action is left as it is.
constraint_action_none(action) == action

\* Line 118: torch.any(torch.isnan(out['action'])).
HasNaN(action) == \E i \in 1..Len(action) : IsNan(action[i])
\* Line 122: constraint_action clamps each element into the bounds of the
\* action space, here [-ActionBound, ActionBound]; a nan stays a nan.
Clamp(x) ==
    IF IsNan(x) THEN x
    ELSE IF x[1] < 0 - ActionBound THEN Num(0 - ActionBound)
    ELSE IF x[1] > ActionBound THEN Num(ActionBound)
    ELSE x
constraint_action(action) == [i \in 1..Len(action) |-> Clamp(action[i])]
\* Line 115 with Policy.__call__ (lines 71-90): the sampled action and what
\* is computed of it and of the observation.
PolicyOut(action) ==
    [action |-> action, action_logprob |-> <<"log_prob", action>>, V |-> "V", entropy |-> "entropy"]

\* All the variables of run_experiment, which choose_action leaves alone.
runv ==
    <<configs, seeds, max_workers, chunksize, use_gpu, gpu_ids, num_gpu, fail_seed, call_no,
      history, fs0, fs, mainv, poolv, answer, procv>>

\* Lines 113-115: choose_action is called and the policy samples an action.
ChooseAction ==
    /\ agent.pc \in {"idle", "returned"}
    /\ \E action \in ActionTensors :
           agent' = [agent EXCEPT !.pc = "policy", !.out = Some(PolicyOut(action)),
                                  !.result = None, !.printed = 0]
    /\ UNCHANGED runv

\* Lines 118-124: the check for nan, then the constraint and the return.
CheckAction ==
    /\ agent.pc = "policy"
    /\ LET out == Get(agent.out)
       IN IF HasNaN(out.action)
          THEN agent' = [agent EXCEPT !.pc = "loop"]
          ELSE agent' = [agent EXCEPT !.pc = "returned",
                                      !.result = Some(IF agent.control_type = "Continuous"
                                                      THEN [out EXCEPT !.action = constraint_action(@)]
                                                      ELSE out)]
    /\ UNCHANGED runv

\* Lines 119-120: one turn of while True: print('NaN !'); printed counts
\* the lines printed, up to MaxPrints.
PrintNaN ==
    /\ agent.pc = "loop"
    /\ agent' = [agent EXCEPT !.printed = Min(@ + 1, MaxPrints)]
    /\ UNCHANGED runv

InitAgent ==
    /\ configs = <<>>
    /\ seeds = <<>>
    /\ max_workers = None
    /\ chunksize = 1
    /\ use_gpu = FALSE
    /\ gpu_ids = None
    /\ num_gpu = MaxGpu
    /\ fail_seed = 0
    /\ fs = {}
    /\ pc = "start"
    /\ ci = 1
    /\ si = 1
    /\ jobs = <<>>
    /\ results = <<>>
    /\ di = 0
    /\ raising = NoExc
    /\ outcome = [kind |-> "running", results |-> <<>>, exc |-> NoExc]
    /\ pool_size = 0
    /\ futures = <<>>
    /\ worker = [p \in Procs |-> Idle]
    /\ calls = <<>>
    /\ overtaken = FALSE
    /\ call_no = 1
    /\ history = <<>>
    /\ fs0 = fs
    /\ answer = "none"
    /\ proc = [p \in Procs |-> Fresh]
    /\ releases = 0
    /\ agent \in {NewAgent("Discrete"), NewAgent("Continuous")}

NextAgent ==
    \/ ChooseAction
    \/ CheckAction
    \/ PrintNaN

SpecAgent == InitAgent /\ [][NextAgent]_vars

\* ------------------------------------------------------------ properties
NumJobs == Len(configs) * Len(seeds)
JobConfig(k) == jobs[k][2][1]
JobSeed(k) == jobs[k][2][2]
Invoked == {k \in 1..Len(calls) : calls[k] # <<>>}
Running == {w \in 1..MaxWorkers : worker[w].busy}
FailingJobs == {k \in 1..Len(jobs) : JobSeed(k) = fail_seed}
Malformed == gpu_ids # None /\ \E i \in 1..Len(Get(gpu_ids)) : Get(gpu_ids)[i] < 0 \/ Get(gpu_ids)[i] >= num_gpu

\* C1: when run_experiment returns normally, in either mode and whatever the
\* order in which the pool's jobs completed, the returned sequence has
\* length n*m and holds at index i the value the run function returned for
\* the job with job_id i.
C1_SubmissionOrder ==
    outcome.kind = "returned" =>
        /\ Len(outcome.results) = NumJobs
        /\ \A k \in 1..Len(jobs) :
               outcome.results[jobs[k][1] + 1] = RunResult(JobConfig(k), JobSeed(k))

\* Pooled, four jobs in four chunks, a chunk through before an earlier one,
\* and the call has returned.
C1_Witness ==
    /\ outcome.kind = "returned"
    /\ max_workers # None
    /\ overtaken
    /\ Len(futures) = 4

\* C2: the enumeration yields exactly n*m jobs, with job_ids 0..n*m-1 in
\* order without gap or repeat, and the job with job_id i*m+j is the pair
\* (c_i, s_j).
C2_Enumeration ==
    pc = "dispatch" =>
        /\ Len(jobs) = NumJobs
        /\ \A k \in 1..Len(jobs) : jobs[k][1] = k - 1
        /\ \A i \in 0..(Len(configs) - 1) : \A j \in 0..(Len(seeds) - 1) :
               jobs[i * Len(seeds) + j + 1] = <<i * Len(seeds) + j, <<configs[i + 1], seeds[j + 1]>>>>

C2_Witness ==
    /\ pc = "dispatch"
    /\ Len(configs) = 2
    /\ seeds = <<2, 1>>
    /\ Len(jobs) = 4

\* C3: a serial call and a pooled call over the same configurations, seeds
\* and run function end alike: the same result sequence is returned (or the
\* same exception raised).
C3_SerialPooledSame ==
    pc = "done" =>
        \A h \in 1..Len(history) :
            (history[h].max_workers = None) # (max_workers = None) => history[h].outcome = outcome

\* C4: whenever the run function has been invoked for some job, the leaf
\* directory of every (configuration, seed) pair exists.
C4_Barrier ==
    Invoked # {} =>
        \A i \in 1..Len(configs) : \A j \in 1..Len(seeds) :
            <<"logs", Str(configs[i].ID), Str(seeds[j])>> \in fs

\* Pooled: the first job has just been invoked, three more are to come.
C4_Witness ==
    /\ max_workers # None
    /\ Cardinality(Invoked) = 1
    /\ Cardinality(Running) = 1
    /\ NumJobs = 4
    /\ Cardinality({p \in fs : Len(p) = 3 /\ p[2] \in {"0", "1"} /\ p[3] \in {"1", "2"}}) = 4

\* C5: in serial mode the jobs are run one at a time in increasing job_id
\* order; once the run function has raised on job i the exception has left
\* run_experiment, no job after i is ever invoked and nothing is returned.
C5_SerialFailFast ==
    max_workers = None =>
        /\ \A k \in Invoked :
               /\ Len(calls[k]) = 1
               /\ \A j \in 1..(k - 1) : j \in Invoked /\ j <= Len(results)
        /\ \A k \in Invoked :
               JobSeed(k) = fail_seed =>
                   /\ \A j \in (k + 1)..Len(calls) : j \notin Invoked
                   /\ \/ worker[0].busy /\ worker[0].pos = k
                      \/ /\ pc = "done"
                         /\ outcome = [kind |-> "raised", results |-> <<>>,
                                       exc |-> <<"RunError", JobConfig(k).ID, JobSeed(k)>>]

\* Serial: a job has returned, the next one has raised, a later one exists.
C5_Witness ==
    /\ max_workers = None
    /\ pc = "done"
    /\ outcome.kind = "raised"
    /\ outcome.exc[1] = "RunError"
    /\ Len(results) >= 1
    /\ Len(jobs) > Len(results) + 1

\* C6: when the run function raises on one or more jobs, pooled dispatch
\* (like serial dispatch) ends with the exception of the failing job of
\* smallest job_id, whatever the order of completion, and returns nothing.
C6_FirstFailure ==
    (/\ pc = "done"
     /\ jobs # <<>>
     /\ max_workers # None => pool_size > 0
     /\ DeviceFor(0).ok
     /\ FailingJobs # {}) =>
        LET first == CHOOSE k \in FailingJobs : \A j \in FailingJobs : k <= j
        IN outcome = [kind |-> "raised", results |-> <<>>,
                      exc |-> <<"RunError", JobConfig(first).ID, JobSeed(first)>>]

\* Pooled: two failing jobs, both invoked, the later one's chunk through first.
C6_Witness ==
    /\ pc = "done"
    /\ max_workers # None
    /\ outcome.kind = "raised"
    /\ overtaken
    /\ Cardinality(FailingJobs \cap Invoked) = 2

\* C7: in a call that returns normally the run function has been invoked
\* exactly once for each job_id 0..n*m-1, with that job's configuration and
\* seed and with logdir root/<config_id>/<seed> of that pair.
C7_ExactlyOnce ==
    outcome.kind = "returned" =>
        /\ Len(calls) = NumJobs
        /\ \A k \in 1..Len(calls) :
               /\ Len(calls[k]) = 1
               /\ calls[k][1].config = JobConfig(k)
               /\ calls[k][1].seed = JobSeed(k)
               /\ calls[k][1].logdir = <<"logs", Str(JobConfig(k).ID), Str(JobSeed(k))>>
               /\ calls[k][1].logdir \in fs

\* Pooled, chunks of two jobs, four jobs, returned.
C7_Witness ==
    /\ outcome.kind = "returned"
    /\ max_workers # None
    /\ chunksize = 2
    /\ Len(calls) = 4

\* C8: in pooled mode never more than min(max_workers, job_count) jobs are
\* executing, and the pool has exactly that many workers.
C8_PoolBound ==
    max_workers # None =>
        /\ Cardinality(Running) <= Min(Get(max_workers), NumJobs)
        /\ pc \in {"drain", "shutdown"} => pool_size = Min(Get(max_workers), NumJobs)
        /\ \A w \in 1..MaxWorkers : w > pool_size => worker[w] = Idle

\* Two workers both executing while further chunks wait.
C8_Witness ==
    /\ max_workers = Some(2)
    /\ Cardinality(Running) = 2
    /\ PendingChunks # {}

\* C9: with use_gpu and a rotation R ([0..k-1] when gpu_ids is unset, else
\* the valid non-empty gpu_ids), the device of a job is an element of R, the
\* first |R| jobs get R in order and job_id and job_id+|R| get the same
\* device; k=4 unset gives 0,1,2,3,0,1 and gpu_ids=[2,3] gives 2,3,2,3.
Rotation == IF gpu_ids = None THEN [i \in 1..num_gpu |-> i - 1] ELSE Get(gpu_ids)
DeviceOf(k) == calls[k][1].device
C9_RoundRobin ==
    (use_gpu /\ ~Malformed /\ Rotation # <<>>) =>
        /\ \A k \in Invoked :
               /\ \E r \in 1..Len(Rotation) : DeviceOf(k) = "cuda:" \o Str(Rotation[r])
               /\ k <= Len(Rotation) => DeviceOf(k) = "cuda:" \o Str(Rotation[k])
               /\ k > Len(Rotation) =>
                      k - Len(Rotation) \in Invoked /\ DeviceOf(k) = DeviceOf(k - Len(Rotation))
        /\ (gpu_ids = None /\ num_gpu = 4 /\ Invoked = 1..6) =>
               [k \in 1..6 |-> DeviceOf(k)] = <<"cuda:0", "cuda:1", "cuda:2", "cuda:3", "cuda:0", "cuda:1">>
        /\ (gpu_ids = Some(<<2, 3>>) /\ Cardinality(Invoked) >= 4) =>
               [k \in 1..4 |-> DeviceOf(k)] = <<"cuda:2", "cuda:3", "cuda:2", "cuda:3">>

C9_Witness ==
    /\ use_gpu
    /\ gpu_ids = Some(<<2, 3>>)
    /\ num_gpu = 4
    /\ outcome.kind = "returned"
    /\ Invoked = 1..6

\* C10 as stated: whenever gpu_ids holds an index out of range the run
\* function is invoked for no job and run_experiment raises.
C10_Original ==
    Malformed =>
        /\ Invoked = {}
        /\ pc = "done" => outcome.kind = "raised"

\* C10 amended: with use_gpu true and an index of gpu_ids out of range the
\* run function is invoked for no job, in either mode, and run_experiment
\* raises whenever there is at least one job.
C10_FailFast ==
    (use_gpu /\ Malformed) =>
        /\ Invoked = {}
        /\ \A p \in Procs : ~worker[p].busy
        /\ (pc = "done" /\ NumJobs > 0) => outcome.kind = "raised"

\* Pooled, several jobs, the second index out of range: the assertion of
\* the first job has reached the caller.
C10_Witness ==
    /\ use_gpu
    /\ gpu_ids = Some(<<0, MaxGpu>>)
    /\ max_workers # None
    /\ Len(jobs) >= 2
    /\ pc = "done"
    /\ outcome.exc = Exc("AssertionError")

\* The paths of a tree at and below p, and the same relative to p.
Under(tree, p) == {q \in tree : IsPrefix(p, q)}
Relative(tree, p) == {SubSeq(q, Len(p) + 1, Len(q)) : q \in Under(tree, p)}

\* C11: when the root exists and the operator answers No, the previous
\* tree is kept unchanged under old_<name> and the call goes on with a
\* fresh empty root, in every one of successive calls answered No: no call
\* fails because of an earlier backup.
C11_BackupKept ==
    answer = "no" =>
        /\ outcome.exc # Exc("OSError")
        /\ pc = "source" =>
               /\ Relative(fs, old_log_path) = Relative(fs0, log_path)
               /\ Under(fs, log_path) = {log_path}

\* C12: the operator is prompted if and only if the root exists when
\* run_experiment is called; a missing root is created with its parents;
\* after the answer Yes nothing of the previous tree remains under the
\* root and no path outside the root is created, removed or changed.
C12_PromptAndClean ==
    pc # "start" =>
        /\ answer # "none" <=> log_path \in fs0
        /\ (pc = "source" /\ answer = "none") => fs = fs0 \cup Prefixes(log_path)
        /\ (pc = "source" /\ answer = "yes") => Under(fs, log_path) = {log_path}
        /\ answer = "yes" => fs \ Under(fs, log_path) = fs0 \ Under(fs0, log_path)

\* The root has just been cleaned on the answer Yes, while an earlier
\* call's backup stands beside it.
C12_Witness ==
    /\ pc = "source"
    /\ answer = "yes"
    /\ Under(fs0, log_path) # {log_path}
    /\ old_log_path \o <<"0">> \in fs

\* The directories and files the preparation of lines 86-98 creates.
Prepared ==
    {log_path, source_path, log_path \o <<"configs.pkl">>}
    \cup {log_path \o <<Str(configs[i].ID)>> : i \in 1..Len(configs)}
    \cup {ConfigFile(configs[i]) : i \in 1..Len(configs)}
    \cup {LeafDir(configs[i], seeds[j]) : i \in 1..Len(configs), j \in 1..Len(seeds)}

\* C13: once the preparation is complete, whatever the root held before
\* and whatever the operator answered, the root holds exactly one
\* directory per configuration ID, in each exactly one directory per seed
\* and the configuration's file, and source_files/ and the configs archive
\* at the top: every (ID, seed) pair has its leaf, and there is no other.
C13_ExactTree ==
    pc \in {"enumerate", "dispatch", "serial", "drain", "shutdown"} =>
        /\ \A i \in 1..Len(configs), j \in 1..Len(seeds) : LeafDir(configs[i], seeds[j]) \in fs
        /\ {q \in Under(fs, log_path) : ~IsPrefix(source_path, q)} = Prepared \ {source_path}
        /\ source_path \in fs

\* The preparation is complete for two configurations and two seeds over
\* a root that held a stale run directory and was cleaned.
C13_Witness ==
    /\ pc = "enumerate"
    /\ Len(configs) = 2
    /\ Len(seeds) = 2
    /\ answer = "yes"
    /\ log_path \o <<"0", "7">> \in fs0
    /\ log_path \o <<"0", "7">> \notin fs

\* A list holds some value twice.
Repeated(l) == \E i, j \in 1..Len(l) : i # j /\ l[i] = l[j]
RepeatedInput == Repeated(seeds) \/ Repeated([i \in 1..Len(configs) |-> configs[i].ID])
Dispatching == pc \in {"dispatch", "serial", "drain", "shutdown"}
\* No two jobs of the job list, and no two invocations of the run
\* function, have the same logdir.
DistinctLogdirs ==
    /\ \A k1, k2 \in 1..Len(jobs) :
           k1 # k2 => Invocation(jobs[k1], "cpu").logdir # Invocation(jobs[k2], "cpu").logdir
    /\ \A k1, k2 \in Invoked :
           k1 # k2 => \A a \in 1..Len(calls[k1]), b \in 1..Len(calls[k2]) :
                          calls[k1][a].logdir # calls[k2][b].logdir

\* C15 as stated: no two jobs of one call receive the same logdir, and
\* inputs with a repeated seed or a repeated configuration ID never reach
\* the dispatch.
C15_Original ==
    /\ DistinctLogdirs
    /\ RepeatedInput => ~Dispatching

\* C15: no two jobs of one call receive the same logdir; inputs with a
\* repeated seed or a repeated configuration ID that make at least one job
\* never reach the dispatch (with no job, the dispatch is reached and no
\* logdir is handed out).
C15_DistinctLogdirs ==
    /\ DistinctLogdirs
    /\ (RepeatedInput /\ NumJobs > 0) => ~Dispatching
    /\ (RepeatedInput /\ Dispatching) => Invoked = {}

\* Four jobs have been handed their logdirs, in the second call on the
\* root.
C15_Witness ==
    /\ Len(jobs) = 4
    /\ Invoked = 1..4
    /\ call_no = 2
    /\ Cardinality({calls[k][1].logdir : k \in 1..4}) = 4

\* C14: when use_gpu is false every job receives the cpu device, whatever
\* its job_id, the number of devices and the value of gpu_ids, and the
\* device inventory is neither queried nor checked against gpu_ids.
C14_CpuOnly ==
    ~use_gpu =>
        /\ \A k \in Invoked : \A a \in 1..Len(calls[k]) : calls[k][a].device = "cpu"
        /\ \A p \in Procs : ~proc[p].queried /\ (worker[p].busy => worker[p].device = "cpu")
        /\ outcome.exc \notin {Exc("AssertionError"), Exc("ZeroDivisionError")}
        /\ (pc = "done" /\ Len(jobs) > 0) => outcome.kind = "returned"

\* On the host processor, with no device on the machine and a gpu_ids list
\* that names devices out of range, four jobs have run and the call has
\* returned.
C14_Witness ==
    /\ ~use_gpu
    /\ num_gpu = 0
    /\ gpu_ids = Some(<<-1, MaxGpu + 2>>)
    /\ Invoked = 1..4
    /\ outcome.kind = "returned"

\* The index in jobs of the job a busy process is running.
JobOf(p) == IF p = 0 THEN worker[0].pos ELSE ChunkJobs(worker[p].chunk)[worker[p].pos][1] + 1
Busy == {p \in Procs : worker[p].busy}

\* C16: whenever the run function is executing a job, the thread count of
\* the process executing it is 1 and the job's device has been resolved, in
\* serial and in pooled mode and on a worker reused for several jobs.
C16_OneThread ==
    \A p \in Busy :
        /\ proc[p].threads = 1
        /\ worker[p].device = DeviceFor(jobs[JobOf(p)][1]).device
        /\ calls[JobOf(p)] # <<>>
        /\ calls[JobOf(p)][Len(calls[JobOf(p)])].device = worker[p].device

\* In accelerator mode the one worker of a pool, reused, is running the
\* second job of its second chunk.
C16_Witness ==
    /\ pool_size = 1
    /\ worker[1].busy
    /\ worker[1].chunk = 2
    /\ worker[1].pos = 2
    /\ proc[1].threads = 1
    /\ use_gpu

\* The jobs whose run function has returned.
Returned == {k \in Invoked : k \notin {JobOf(p) : p \in Busy} /\ JobSeed(k) # fail_seed}

\* C17: in accelerator mode, for every job whose run function returns, the
\* process releases its unfreed device memory after the return and before
\* the result is handed back and before it starts its next job; on the
\* host processor the release is never performed.
C17_Release ==
    /\ use_gpu =>
           /\ releases = Cardinality(Returned)
           /\ \A p \in Procs \ Busy : proc[p].cache => FailingJobs \cap Invoked # {}
           /\ \A p \in Busy : Len(worker[p].acc) > 0 => releases >= Len(worker[p].acc)
    /\ ~use_gpu => releases = 0 /\ \A p \in Procs : ~proc[p].cache

\* In accelerator mode a worker that has returned the first job of its
\* chunk, and released, is running the second.
C17_Witness ==
    /\ use_gpu
    /\ \E w \in 1..pool_size :
           /\ worker[w].busy
           /\ worker[w].pos = 2
           /\ Len(worker[w].acc) = 1
           /\ proc[w].cache
    /\ releases >= 2

\* C18: when the configurations or the seeds are empty, the job list is
\* empty, the run function is never invoked, and run_experiment returns an
\* empty result sequence without error, in serial and in pooled mode.
C18_EmptyReturns ==
    (configs = <<>> \/ seeds = <<>>) =>
        /\ jobs = <<>>
        /\ Invoked = {}
        /\ pc = "done" => outcome = [kind |-> "returned", results |-> <<>>, exc |-> NoExc]

\* A worker of the pool with a job to begin.
Ready(w) ==
    /\ pc \in {"drain", "shutdown"}
    /\ w \in 1..pool_size
    /\ ~worker[w].busy
    /\ worker[w].chunk # 0 \/ PendingChunks # {}
    /\ proc[w] = Fresh => \A v \in 1..(w - 1) : proc[v] # Fresh

\* C20: the device assignment is not a reservation: in pooled accelerator
\* mode two jobs running at the same time whose job_ids are congruent
\* modulo the rotation length have the same device, and a worker with a
\* job to begin is never held back, whatever the devices in use.
C20_NoReservation ==
    /\ (use_gpu /\ ~Malformed /\ Rotation # <<>>) =>
           \A v, w \in Busy :
               (jobs[JobOf(v)][1] % Len(Rotation) = jobs[JobOf(w)][1] % Len(Rotation))
                   => worker[v].device = worker[w].device
    /\ \A w \in 1..MaxWorkers : Ready(w) => ENABLED WorkerBegin(w)

\* Two workers of a pool are running two different jobs on the same
\* device.
C20_Witness ==
    /\ use_gpu
    /\ \E v, w \in Busy :
           /\ v # w
           /\ v # 0
           /\ w # 0
           /\ JobOf(v) # JobOf(w)
           /\ worker[v].device = worker[w].device
           /\ worker[v].device # "cpu"

Dispatched == pc \in {"serial", "drain"} /\ DeviceFor(0).ok
Completed ==
    /\ pc = "done"
    /\ outcome.kind = "returned"
    /\ Len(outcome.results) = NumJobs
    /\ \A k \in 1..Len(jobs) : Len(calls[k]) = 1
NoneDropped ==
    (fail_seed = 0 /\ DeviceFor(0).ok) =>
        /\ \A c \in 1..Len(futures) : futures[c].state # "cancelled"
        /\ pc # "shutdown"
        /\ raising = NoExc

Sampled == Get(agent.out).action
\* choose_action is past its check for nan.
Checked == agent.pc \in {"loop", "returned"}
\* What choose_action returns for an action without nan.
ReturnedOut ==
    /\ agent.result # None
    /\ Get(agent.result).action_logprob = <<"log_prob", Sampled>>
    /\ Get(agent.result).V = Get(agent.out).V
    /\ Get(agent.result).entropy = Get(agent.out).entropy
    /\ Len(Get(agent.result).action) = Len(Sampled)
    /\ \A i \in 1..Len(Sampled) :
           LET a == Sampled[i][1]
               r == Get(agent.result).action[i][1]
           IN IF agent.control_type = "Continuous"
              THEN /\ r >= 0 - ActionBound
                   /\ r <= ActionBound
                   /\ (a >= 0 - ActionBound /\ a <= ActionBound) => r = a
                   /\ a > ActionBound => r = ActionBound
                   /\ a < 0 - ActionBound => r = 0 - ActionBound
              ELSE r = a
NaNLoops ==
    Checked =>
        IF \E i \in 1..Len(Sampled) : Sampled[i] = NaN
        THEN agent.pc = "loop" /\ agent.result = None
        ELSE agent.pc = "returned" /\ agent.printed = 0 /\ ReturnedOut
StaysInLoop ==
    agent.pc = "loop" => (agent'.pc = "loop" /\ agent'.out = agent.out /\ agent'.result = None)

\* C21: once the sampled action holds a nan, choose_action neither
\* returns nor raises: it is in a loop that only prints 'NaN !' and never
\* leaves it; on every call whose action holds no nan it returns the
\* policy's output, the action constrained when the control type is
\* Continuous.
C21_NaNLoop ==
    /\ []NaNLoops
    /\ [][StaysInLoop]_vars

\* A call of a Continuous agent whose action holds a nan in its second
\* element only has printed MaxPrints lines and is in the loop.
C21_Witness ==
    /\ agent.pc = "loop"
    /\ agent.printed = MaxPrints
    /\ agent.control_type = "Continuous"
    /\ Len(Sampled) = 2
    /\ Sampled[1] = Num(ActionBound + 1)
    /\ Sampled[2] = NaN

====
